---- MODULE Spec2Model ----
(***************************************************************************)
(* The frame-synchronized measurement pipeline of the MediaPipe trackers.  *)
(*                                                                         *)
(* The repository holds three variants of the same page component `Home`:  *)
(*   "pose"          src/unnamed/part_000        (Known-Reference mode:    *)
(*                   shoulder width calibrates distance, then wingspan)    *)
(*   "handDistance"  src/app/page.tsx, 1..232    (two hands, 3-D distance  *)
(*                   scaled by 50cm per frame width)                       *)
(*   "handWingspan"  src/app/page.tsx, 234..491  (Fixed-Distance mode:     *)
(*                   two hands, fixed camera distance and field of view)   *)
(* The variant is chosen in Init and never changes.                        *)
(*                                                                         *)
(* Numbers: a JavaScript number is modelled as a non-negative rational     *)
(* [k |-> "fin", n, d] in lowest terms, or Infinity, or NaN, with the      *)
(* IEEE-754 rules for 0/0, x/0 and 0*Infinity.  Landmark coordinates are   *)
(* tenths of the frame (x = 4 means 0.4).                                  *)
(***************************************************************************)
EXTENDS Integers, Naturals, Sequences, FiniteSets, TLC

VARIABLES
    variant,            \* which Home component is running
    landmarker,         \* useState poseLandmarker / handLandmarker: "null" | "ready"
    error,              \* useState error: "null" | message
    mounted,            \* the component is mounted (teardown has not run)
    loopStarted,        \* the detection-loop effect body has run
    paused,             \* video.paused
    ended,              \* video.ended
    videoWidth,         \* video.videoWidth
    videoHeight,        \* video.videoHeight
    currentTime,        \* video.currentTime
    canvasWidth,        \* canvas.width
    canvasHeight,       \* canvas.height
    lastVideoTime,      \* closure variable lastVideoTime
    distance,           \* useState distance
    wingspan,           \* useState wingspan
    animationFrameRef,  \* animationFrameRef.current: 0 (null) or a callback id
    rafPending,         \* ids of the callbacks the host will still deliver
    nextRafId,          \* the id the next requestAnimationFrame returns
    results,            \* what the last detectForVideo call returned
    detectLog,          \* video.currentTime of every detectForVideo call, in order
    observed,           \* timestamps read by ticks that passed the paused/ended test
    distanceFrame,      \* number of the detection call whose tick last wrote distance
    wingspanFrame,      \* number of the detection call whose tick last wrote wingspan
    tickKind,           \* branch taken by the last tick: "none" | "idle" | "dup" | "new"
    initFailed,         \* initialize...Landmarker has ended in its catch block
    camera,             \* the getUserMedia stream: "pending" | "live" | "stopped" | "failed"
    overlay             \* number of the detection call whose lines are on the canvas (0: blank)

vars == <<variant, landmarker, error, mounted, loopStarted, paused, ended,
          videoWidth, videoHeight, currentTime, canvasWidth, canvasHeight,
          lastVideoTime, distance, wingspan, animationFrameRef, rafPending,
          nextRafId, results, detectLog, observed, distanceFrame, wingspanFrame,
          tickKind, initFailed, camera, overlay>>

videoVars == <<paused, ended, videoWidth, videoHeight, currentTime>>
loopVars == <<canvasWidth, canvasHeight, lastVideoTime, distance, wingspan,
              animationFrameRef, rafPending, nextRafId, results, detectLog,
              observed, distanceFrame, wingspanFrame, tickKind, overlay>>

----------------------------------------------------------------------------
(* Bounds of the model *)

\* video.currentTime takes the values 0..MaxTime
MaxTime == 2
\* at most MaxRaf animation-frame callbacks are requested in a run
MaxRaf == 4
\* the pose detector returns at most MaxPoses subjects
MaxPoses == 2

(* Program constants *)

ASSUMED_SHOULDER_WIDTH_CM == 45
CAMERA_DISTANCE == 150
fovDegrees == 70
IdealWidth == 1280
IdealHeight == 720
NumHandsDistance == 2
NumHandsWingspan == 4

Variants == {"pose", "handDistance", "handWingspan"}

----------------------------------------------------------------------------
(* JavaScript numbers *)

Null == [k |-> "null", n |-> 0, d |-> 0]
Infinity == [k |-> "inf", n |-> 1, d |-> 0]
NaN == [k |-> "nan", n |-> 0, d |-> 0]

RECURSIVE GCD(_, _)
GCD(a, b) == IF b = 0 THEN a ELSE GCD(b, a % b)

\* the rational n/d (n >= 0, d > 0) in lowest terms
Rat(n, d) == LET g == GCD(n, d) IN [k |-> "fin", n |-> n \div g, d |-> d \div g]

FromInt(i) == [k |-> "fin", n |-> i, d |-> 1]

IsFinite(v) == v.k = "fin"
IsZero(v) == v.k = "fin" /\ v.n = 0

\* a * b on non-negative numbers (0 * Infinity is NaN)
FMul(a, b) ==
    IF a.k = "nan" \/ b.k = "nan" THEN NaN
    ELSE IF a.k = "inf" \/ b.k = "inf"
         THEN (IF IsZero(a) \/ IsZero(b) THEN NaN ELSE Infinity)
    ELSE LET g1 == GCD(a.n, b.d)
             g2 == GCD(b.n, a.d)
         IN  Rat((a.n \div g1) * (b.n \div g2), (a.d \div g2) * (b.d \div g1))

\* a / b on non-negative numbers (0/0 is NaN, x/0 is Infinity)
FDiv(a, b) ==
    IF a.k = "nan" \/ b.k = "nan" THEN NaN
    ELSE IF a.k = "inf" THEN (IF b.k = "inf" THEN NaN ELSE Infinity)
    ELSE IF b.k = "inf" THEN FromInt(0)
    ELSE IF b.n = 0 THEN (IF a.n = 0 THEN NaN ELSE Infinity)
    ELSE FMul(a, [k |-> "fin", n |-> b.d, d |-> b.n])

RECURSIVE SqrtBetween(_, _, _)
SqrtBetween(n, lo, hi) ==
    IF lo >= hi THEN lo
    ELSE LET mid == (lo + hi + 1) \div 2
         IN  IF mid * mid <= n THEN SqrtBetween(n, mid, hi)
             ELSE SqrtBetween(n, lo, mid - 1)

\* Math.sqrt on the integers the model feeds it (exact on perfect squares,
\* rounded down otherwise)
Sqrt(n) == SqrtBetween(n, 0, 4096)

\* Math.tan((deg) * (Math.PI / 180)); tan 35 degrees = 0.7002
Tan(deg) == IF deg = 35 THEN Rat(3501, 5000) ELSE NaN

----------------------------------------------------------------------------
(* Detection results: the values detectForVideo can return *)

Point(x, y, z) == [x |-> x, y |-> y, z |-> z]

\* a pose subject: the four landmarks the pipeline reads
\* (11/12 shoulders, 15/16 wrists)
PoseSubject(ls, rs, lw, rw) == (11 :> ls) @@ (12 :> rs) @@ (15 :> lw) @@ (16 :> rw)

\* a hand subject: landmark 12, the middle fingertip
HandSubject(tip) == (12 :> tip)

PoseSubjects ==
    { PoseSubject(Point(4, 5, 0), Point(6, 5, 0), Point(1, 5, 0), Point(9, 5, 0)),
      PoseSubject(Point(5, 5, 0), Point(5, 5, 0), Point(1, 5, 0), Point(9, 5, 0)),
      PoseSubject(Point(5, 5, 0), Point(5, 5, 0), Point(5, 5, 0), Point(5, 5, 0)) }

HandSubjects == { HandSubject(Point(2, 5, 0)), HandSubject(Point(5, 5, 4)) }

SeqsUpTo(S, n) == UNION { [1..m -> S] : m \in 0..n }

\* the lists of up to n subjects the model feeds the pipeline: every list of
\* up to two subjects, and the longer ones that repeat one subject
SubjectLists(S, n) ==
    SeqsUpTo(S, IF n < 2 THEN n ELSE 2)
        \cup { [i \in 1..m |-> s] : s \in S, m \in 3..n }

\* a result whose landmarks field is missing
NoLandmarks == [hasLandmarks |-> FALSE, landmarks |-> <<>>]

WithLandmarks(l) == [hasLandmarks |-> TRUE, landmarks |-> l]

MaxSubjects(v) ==
    CASE v = "pose" -> MaxPoses
      [] v = "handDistance" -> NumHandsDistance
      [] v = "handWingspan" -> NumHandsWingspan

SubjectsOf(v) == IF v = "pose" THEN PoseSubjects ELSE HandSubjects

DetectResults(v) ==
    {NoLandmarks} \cup { WithLandmarks(l) : l \in SubjectLists(SubjectsOf(v), MaxSubjects(v)) }

----------------------------------------------------------------------------
(* Geometry *)

\* (b.x - a.x) * canvas.width, coordinates in tenths
ScaleX(a, b, W) == ((b.x - a.x) * W) \div 10
ScaleY(a, b, H) == ((b.y - a.y) * H) \div 10
ScaleZ(a, b, W) == ((b.z - a.z) * W) \div 10

\* Math.sqrt(dx * dx + dy * dy)
PixelSeparation(a, b, W, H) ==
    LET dx == ScaleX(a, b, W)
        dy == ScaleY(a, b, H)
    IN  Sqrt(dx * dx + dy * dy)

\* Math.sqrt(dx * dx + dy * dy + dz * dz)
PixelSeparation3D(a, b, W, H) ==
    LET dx == ScaleX(a, b, W)
        dy == ScaleY(a, b, H)
        dz == ScaleZ(a, b, W)
    IN  Sqrt(dx * dx + dy * dy + dz * dz)

\* the focal length with the factor 2 of the half-angle formula left out
focalLengthPixelsNoHalf(W) == FDiv(FromInt(W), Tan(fovDegrees \div 2))

\* canvas.width / (2 * Math.tan((fovDegrees / 2) * (Math.PI / 180)))
focalLengthPixels(W) ==
    FDiv(FromInt(W), FMul(FromInt(2), Tan(fovDegrees \div 2)))

\* the distance taken from the frame width in place of the focal length
calculatedDistanceByWidth(shoulderWidthPixels, W) ==
    FDiv(FMul(FromInt(ASSUMED_SHOULDER_WIDTH_CM), FromInt(W)),
         FromInt(shoulderWidthPixels))

\* (ASSUMED_SHOULDER_WIDTH_CM * focalLengthPixels) / shoulderWidthPixels
calculatedDistance(shoulderWidthPixels, W) ==
    FDiv(FMul(FromInt(ASSUMED_SHOULDER_WIDTH_CM), focalLengthPixels(W)),
         FromInt(shoulderWidthPixels))

\* (wingspanPixels * calculatedDistance) / focalLengthPixels
PoseWingspanCm(wingspanPixels, dist, W) ==
    FDiv(FMul(FromInt(wingspanPixels), dist), focalLengthPixels(W))

\* (distancePixels / canvas.width) * 50
HandDistanceCm(distancePixels, W) ==
    FMul(FDiv(FromInt(distancePixels), FromInt(W)), FromInt(50))

\* 2 * CAMERA_DISTANCE * Math.tan(...) / canvas.width
pixelToCmRatio(W) ==
    FDiv(FMul(FromInt(2 * CAMERA_DISTANCE), Tan(fovDegrees \div 2)), FromInt(W))

\* a zero pixel separation reported as no measurement
HandWingspanCmNullAtZero(distancePixels, W) ==
    IF distancePixels = 0 THEN Null
    ELSE FMul(FromInt(distancePixels), pixelToCmRatio(W))

\* distancePixels * pixelToCmRatio
HandWingspanCm(distancePixels, W) == FMul(FromInt(distancePixels), pixelToCmRatio(W))

----------------------------------------------------------------------------
(* The measurement branch of a tick, after detectForVideo returned res.     *)
(* Each operator answers which setters the tick calls and with what value.  *)

\* results.landmarks && results.landmarks.length > 0
PoseDetected(res) == res.hasLandmarks /\ Len(res.landmarks) > 0

\* if (results.landmarks)
HasLandmarks(res) == res.hasLandmarks

\* results.landmarks.length === 2
TwoHands(res) == Len(res.landmarks) = 2

Keep == [setDistance |-> FALSE, setWingspan |-> FALSE,
         distance |-> Null, wingspan |-> Null]

\* the else branch with setDistance(null) forgotten
PoseAbsentKeepDistance ==
    [setDistance |-> FALSE, setWingspan |-> TRUE, distance |-> Null, wingspan |-> Null]

\* else { setWingspan(null); setDistance(null); }
PoseAbsent ==
    [setDistance |-> TRUE, setWingspan |-> TRUE, distance |-> Null, wingspan |-> Null]

PoseMeasure(res, W, H) ==
    IF PoseDetected(res)
    THEN LET landmarks == res.landmarks[1]
             shoulderWidthPixels ==
                 PixelSeparation(landmarks[11], landmarks[12], W, H)
             wingspanPixels == PixelSeparation(landmarks[15], landmarks[16], W, H)
             dist == calculatedDistance(shoulderWidthPixels, W)
         IN  [setDistance |-> TRUE, setWingspan |-> TRUE,
              distance |-> dist,
              wingspan |-> PoseWingspanCm(wingspanPixels, dist, W)]
    ELSE PoseAbsent

HandDistanceMeasure(res, W, H) ==
    IF HasLandmarks(res)
    THEN IF TwoHands(res)
         THEN LET finger1 == res.landmarks[1][12]
                  finger2 == res.landmarks[2][12]
              IN  [setDistance |-> TRUE, setWingspan |-> FALSE,
                   distance |-> HandDistanceCm(
                                    PixelSeparation3D(finger1, finger2, W, H), W),
                   wingspan |-> Null]
         ELSE [setDistance |-> TRUE, setWingspan |-> FALSE,
               distance |-> Null, wingspan |-> Null]
    ELSE Keep

HandWingspanMeasure(res, W, H) ==
    IF HasLandmarks(res)
    THEN IF TwoHands(res)
         THEN LET middleFinger1 == res.landmarks[1][12]
                  middleFinger2 == res.landmarks[2][12]
              IN  [setDistance |-> FALSE, setWingspan |-> TRUE,
                   distance |-> Null,
                   wingspan |-> HandWingspanCm(
                                    PixelSeparation(middleFinger1, middleFinger2, W, H),
                                    W)]
         ELSE [setDistance |-> FALSE, setWingspan |-> TRUE,
               distance |-> Null, wingspan |-> Null]
    ELSE Keep

Measure(v, res, W, H) ==
    CASE v = "pose" -> PoseMeasure(res, W, H)
      [] v = "handDistance" -> HandDistanceMeasure(res, W, H)
      [] v = "handWingspan" -> HandWingspanMeasure(res, W, H)

----------------------------------------------------------------------------
(* State after the component's first render *)

Init ==
    /\ variant \in Variants
    /\ landmarker = "null"
    /\ error = "null"
    /\ mounted = TRUE
    /\ loopStarted = FALSE
    /\ paused = TRUE
    /\ ended = FALSE
    /\ videoWidth = 0
    /\ videoHeight = 0
    /\ currentTime = 0
    /\ canvasWidth = 300
    /\ canvasHeight = 150
    /\ lastVideoTime = -1
    /\ distance = Null
    /\ wingspan = Null
    /\ animationFrameRef = 0
    /\ rafPending = {}
    /\ nextRafId = 1
    /\ results = NoLandmarks
    /\ detectLog = <<>>
    /\ observed = {}
    /\ distanceFrame = 0
    /\ wingspanFrame = 0
    /\ tickKind = "none"
    /\ initFailed = FALSE
    /\ camera = "pending"
    /\ overlay = 0

----------------------------------------------------------------------------
(* The video element, driven by the browser *)

\* the stream's first frame arrives: the element learns its dimensions
VideoLoadedData ==
    /\ camera = "live"
    /\ videoWidth = 0
    /\ videoWidth' = IdealWidth
    /\ videoHeight' = IdealHeight
    /\ UNCHANGED <<paused, ended, currentTime>>
    /\ UNCHANGED <<variant, landmarker, error, mounted, loopStarted>>
    /\ UNCHANGED <<initFailed, camera>>
    /\ UNCHANGED loopVars

\* autoPlay starts (or resumes) playback
VideoPlay ==
    /\ camera = "live"
    /\ paused /\ ~ended
    /\ paused' = FALSE
    /\ UNCHANGED <<ended, videoWidth, videoHeight, currentTime>>
    /\ UNCHANGED <<variant, landmarker, error, mounted, loopStarted>>
    /\ UNCHANGED <<initFailed, camera>>
    /\ UNCHANGED loopVars

VideoPause ==
    /\ ~paused /\ ~ended
    /\ paused' = TRUE
    /\ UNCHANGED <<ended, videoWidth, videoHeight, currentTime>>
    /\ UNCHANGED <<variant, landmarker, error, mounted, loopStarted>>
    /\ UNCHANGED <<initFailed, camera>>
    /\ UNCHANGED loopVars

VideoEnded ==
    /\ camera \in {"live", "stopped"}
    /\ ~ended
    /\ ended' = TRUE
    /\ UNCHANGED <<paused, videoWidth, videoHeight, currentTime>>
    /\ UNCHANGED <<variant, landmarker, error, mounted, loopStarted>>
    /\ UNCHANGED <<initFailed, camera>>
    /\ UNCHANGED loopVars

\* a playing video presents its next frame
VideoAdvance ==
    /\ camera = "live"
    /\ ~paused /\ ~ended
    /\ currentTime < MaxTime
    /\ currentTime' = currentTime + 1
    /\ UNCHANGED <<paused, ended, videoWidth, videoHeight>>
    /\ UNCHANGED <<variant, landmarker, error, mounted, loopStarted>>
    /\ UNCHANGED <<initFailed, camera>>
    /\ UNCHANGED loopVars

----------------------------------------------------------------------------
(* Detector initialization *)

\* a catch block that hands out a landmarker all the same
LandmarkerSetOnFailure(lm) == "ready"

\* the catch block does not call setPoseLandmarker / setHandLandmarker
LandmarkerAfterFailure(lm) == lm

\* setPoseLandmarker(landmarker) / setHandLandmarker(landmarker)
InitializeLandmarkerOk ==
    /\ landmarker = "null" /\ ~initFailed
    /\ landmarker' = "ready"
    /\ UNCHANGED <<variant, error, mounted, loopStarted, initFailed, camera>>
    /\ UNCHANGED videoVars
    /\ UNCHANGED loopVars

\* catch (err): setError('Failed to initialize ... tracking.')
InitializeLandmarkerFail ==
    /\ landmarker = "null" /\ ~initFailed
    /\ initFailed' = TRUE
    /\ error' = "Failed to initialize tracking."
    /\ landmarker' = LandmarkerAfterFailure(landmarker)
    /\ UNCHANGED <<variant, mounted, loopStarted, camera>>
    /\ UNCHANGED videoVars
    /\ UNCHANGED loopVars

----------------------------------------------------------------------------
(* Camera acquisition *)

\* await getUserMedia(...) resolves: if (video) video.srcObject = stream.
\* `video` is the element captured when the effect ran, so the assignment
\* is made whether or not the component is still mounted
GetUserMediaResolved ==
    /\ camera = "pending"
    /\ camera' = "live"
    /\ UNCHANGED <<variant, landmarker, error, mounted, loopStarted, initFailed>>
    /\ UNCHANGED videoVars
    /\ UNCHANGED loopVars

\* catch (err): setError('Failed to access camera. ...')
GetUserMediaRejected ==
    /\ camera = "pending"
    /\ camera' = "failed"
    /\ error' = "Failed to access camera."
    /\ UNCHANGED <<variant, landmarker, mounted, loopStarted, initFailed>>
    /\ UNCHANGED videoVars
    /\ UNCHANGED loopVars

----------------------------------------------------------------------------
(* The detection loop *)

\* what is on the canvas after the drawing code of a tick that called
\* detectForVideo: clearRect, then the measured points and the line between
\* them when the measurement branch is taken
Drawn(v, res, call) ==
    IF v = "pose"
    THEN (IF PoseDetected(res) THEN call ELSE 0)
    ELSE (IF HasLandmarks(res) /\ TwoHands(res) THEN call ELSE 0)

\* the loop effect without its guard on the landmarker
LandmarkerReadyAlways(lm) == TRUE

\* the loop effect's test of its dependencies: if (!poseLandmarker || ...) return
LandmarkerReady(lm) == lm = "ready"

\* the idle test with video.ended forgotten
IsIdlePausedOnly(p, e) == p

\* !video || video.paused || video.ended
IsIdle(p, e) == p \/ e

\* the frame gate left open
IsNewFrameAlways(cur, last) == TRUE

\* currentTime !== lastVideoTime
IsNewFrame(cur, last) == cur # last

\* the assignment to lastVideoTime forgotten
NewLastVideoTimeStale(cur, last) == last

\* the sentinel stored in place of the frame's timestamp
NewLastVideoTimeSentinel(cur, last) == -1

\* lastVideoTime = currentTime
NewLastVideoTime(cur, last) == cur

\* a tick that requests two animation frames (the paused branch's `return`
\* forgotten)
ScheduleTwice(fired) ==
    /\ rafPending' = (rafPending \ {fired}) \cup {nextRafId, nextRafId + 1}
    /\ animationFrameRef' = nextRafId + 1
    /\ nextRafId' = nextRafId + 2

\* a tick that requests an animation frame only on a playing video
ScheduleUnlessIdle(fired) ==
    IF paused \/ ended
    THEN /\ rafPending' = rafPending \ {fired}
         /\ UNCHANGED <<animationFrameRef, nextRafId>>
    ELSE /\ rafPending' = (rafPending \ {fired}) \cup {nextRafId}
         /\ animationFrameRef' = nextRafId
         /\ nextRafId' = nextRafId + 1

\* animationFrameRef.current = requestAnimationFrame(detect...), in a tick
\* that the host entered by delivering callback `fired` (0: called directly)
Schedule(fired) ==
    /\ rafPending' = (rafPending \ {fired}) \cup {nextRafId}
    /\ animationFrameRef' = nextRafId
    /\ nextRafId' = nextRafId + 1

\* one run of detectPose / detectHands, entered by callback `fired`;
\* res is what detectForVideo returns when the tick calls it
Tick(fired) ==
    /\ nextRafId <= MaxRaf
    /\ IF IsIdle(paused, ended)
       THEN /\ tickKind' = "idle"
            /\ UNCHANGED <<canvasWidth, canvasHeight, lastVideoTime, distance,
                           wingspan, results, detectLog, observed,
                           distanceFrame, wingspanFrame, overlay>>
       ELSE /\ canvasWidth' = videoWidth
            /\ canvasHeight' = videoHeight
            /\ observed' = observed \cup {currentTime}
            /\ IF IsNewFrame(currentTime, lastVideoTime)
               THEN \E res \in DetectResults(variant) :
                    LET m == Measure(variant, res, canvasWidth', canvasHeight')
                        call == Len(detectLog) + 1
                    IN  /\ lastVideoTime' = NewLastVideoTime(currentTime, lastVideoTime)
                        /\ detectLog' = Append(detectLog, currentTime)
                        /\ results' = res
                        /\ distance' = IF m.setDistance THEN m.distance ELSE distance
                        /\ wingspan' = IF m.setWingspan THEN m.wingspan ELSE wingspan
                        /\ distanceFrame' = IF m.setDistance THEN call ELSE distanceFrame
                        /\ wingspanFrame' = IF m.setWingspan THEN call ELSE wingspanFrame
                        /\ overlay' = Drawn(variant, res, call)
                        /\ tickKind' = "new"
               ELSE /\ tickKind' = "dup"
                    /\ overlay' = 0
                    /\ UNCHANGED <<lastVideoTime, distance, wingspan, results,
                                   detectLog, distanceFrame, wingspanFrame>>
    /\ Schedule(fired)

\* the loop effect runs once the landmarker is set: let lastVideoTime = -1,
\* then detectPose() / detectHands() is called directly
StartLoop ==
    /\ mounted /\ LandmarkerReady(landmarker) /\ ~loopStarted
    /\ loopStarted' = TRUE
    /\ Tick(0)
    /\ UNCHANGED <<variant, landmarker, error, mounted, initFailed, camera>>
    /\ UNCHANGED videoVars

\* the host delivers a pending animation-frame callback
RafCallback ==
    /\ \E id \in rafPending : Tick(id)
    /\ UNCHANGED <<variant, landmarker, error, mounted, loopStarted, initFailed, camera>>
    /\ UNCHANGED videoVars

\* a cleanup that withdraws nothing
CancelNothing(ref, pending) == pending

\* if (animationFrameRef.current) cancelAnimationFrame(animationFrameRef.current)
CancelAnimationFrame(ref, pending) == IF ref # 0 THEN pending \ {ref} ELSE pending

\* if (video && video.srcObject) stream.getTracks().forEach(track => track.stop())
StopTracks(cam) == IF cam = "live" THEN "stopped" ELSE cam

\* the component unmounts: the effects' cleanup functions run
Teardown ==
    /\ mounted
    /\ mounted' = FALSE
    /\ camera' = StopTracks(camera)
    /\ rafPending' = CancelAnimationFrame(animationFrameRef, rafPending)
    /\ UNCHANGED <<variant, landmarker, error, loopStarted, initFailed>>
    /\ UNCHANGED videoVars
    /\ UNCHANGED <<canvasWidth, canvasHeight, lastVideoTime, distance, wingspan,
                   animationFrameRef, nextRafId, results, detectLog, observed,
                   distanceFrame, wingspanFrame, tickKind, overlay>>

Next ==
    \/ VideoLoadedData
    \/ VideoPlay
    \/ VideoPause
    \/ VideoEnded
    \/ VideoAdvance
    \/ InitializeLandmarkerOk
    \/ InitializeLandmarkerFail
    \/ GetUserMediaResolved
    \/ GetUserMediaRejected
    \/ StartLoop
    \/ RafCallback
    \/ Teardown

Spec == Init /\ [][Next]_vars

\* the host keeps delivering display-frame callbacks: a callback that stays
\* pending is eventually run
FairSpec == Spec /\ WF_vars(RafCallback)

----------------------------------------------------------------------------
(* Properties of the frame gate *)

\* this step is a tick: every tick requests exactly one animation frame, and
\* nothing else does
IsTick == nextRafId' # nextRafId

Playing == ~paused /\ ~ended

MeasurementUnchanged == distance' = distance /\ wingspan' = wingspan

\* C1: a tick on a playing video that reads the timestamp stored in
\* lastVideoTime makes no detection call and leaves distance, wingspan and
\* lastVideoTime as they were.
C1_DuplicateTimestampIdempotent ==
    [][ (IsTick /\ Playing /\ currentTime = lastVideoTime)
            => /\ detectLog' = detectLog
               /\ MeasurementUnchanged
               /\ lastVideoTime' = lastVideoTime ]_vars

\* a duplicate-timestamp tick has run while a measurement was on display
C1_Witness ==
    /\ tickKind = "dup"
    /\ Len(detectLog) = 1
    /\ IsFinite(wingspan) \/ IsFinite(distance)

\* the timestamps of the detection calls, as a set
Detected == { detectLog[i] : i \in 1..Len(detectLog) }

\* C2: with a non-decreasing video timestamp, a tick on a playing video whose
\* timestamp differs from lastVideoTime makes exactly one detection call (for
\* that timestamp), and the detection calls are as many as the distinct
\* timestamps read by non-paused ticks, none detected twice.
C2_OneDetectionPerFrame ==
    /\ [](/\ Len(detectLog) = Cardinality(observed)
          /\ Detected = observed)
    /\ [][ (IsTick /\ Playing /\ currentTime # lastVideoTime)
               => detectLog' = Append(detectLog, currentTime) ]_vars

\* three distinct frames were detected and a fourth tick saw the last again
C2_Witness ==
    /\ Len(detectLog) = 3
    /\ tickKind = "dup"
    /\ Cardinality(observed) = 3

\* C3: a tick that finds the video paused or ended makes no detection call,
\* schedules the next tick, and leaves distance, wingspan, lastVideoTime and
\* the canvas dimensions as they were.
C3_PausedTickIsIdle ==
    [][ (IsTick /\ (paused \/ ended))
            => /\ detectLog' = detectLog
               /\ MeasurementUnchanged
               /\ lastVideoTime' = lastVideoTime
               /\ canvasWidth' = canvasWidth /\ canvasHeight' = canvasHeight
               /\ animationFrameRef' \in rafPending'
               /\ animationFrameRef' \notin rafPending ]_vars

\* an idle tick has run on a video that ended while playing a frame the loop
\* had not yet processed, with a measurement on display
C3_Witness ==
    /\ tickKind = "idle"
    /\ ended /\ ~paused
    /\ currentTime # lastVideoTime
    /\ IsFinite(wingspan) \/ IsFinite(distance)

\* C4: a tick on a playing video whose surface has zero width or height makes
\* no detection call and leaves distance, wingspan and lastVideoTime as they
\* were.
C4_ZeroDimensionNoOp ==
    [][ (IsTick /\ Playing /\ (videoWidth = 0 \/ videoHeight = 0))
            => /\ detectLog' = detectLog
               /\ MeasurementUnchanged
               /\ lastVideoTime' = lastVideoTime ]_vars

----------------------------------------------------------------------------
(* Properties of the measurement *)

\* a detection call has been made, and `results` is what the last one returned
Processed == detectLog # <<>>

\* the last detection result carries a landmark list of exactly n subjects
SubjectCount(n) == results.hasLandmarks /\ Len(results.landmarks) = n

NullOrFinite(v) == v = Null \/ IsFinite(v)

\* the last tick made a detection call on a frame of non-zero size (the
\* canvas then has the size the measurement was computed with)
JustProcessedSizedFrame == tickKind = "new" /\ canvasWidth # 0 /\ canvasHeight # 0

\* the one detected pose has both shoulder landmarks at the same point
ShouldersCoincide ==
    /\ SubjectCount(1)
    /\ results.landmarks[1][11] = results.landmarks[1][12]

\* C5: in Known-Reference mode, after a processed frame (of non-zero size)
\* whose one subject has coinciding shoulders, distance and wingspan are
\* null; and the measurements such a tick leaves are null or finite numbers,
\* never Infinity or NaN.
C5_DegenerateReferenceUnavailable ==
    (variant = "pose" /\ JustProcessedSizedFrame)
        => /\ ShouldersCoincide => (distance = Null /\ wingspan = Null)
           /\ NullOrFinite(distance) /\ NullOrFinite(wingspan)

\* the quantity a hand variant measures
HandValue == IF variant = "handDistance" THEN distance ELSE wingspan

\* C6: in the two-hand variants, after a processed frame with a number of
\* subjects other than 2 the measurement is null, and after a processed frame
\* with exactly 2 subjects it is a finite number.
C6_TwoHandGating ==
    (variant # "pose" /\ Processed /\ results.hasLandmarks)
        => IF SubjectCount(2) THEN IsFinite(HandValue) ELSE HandValue = Null

\* C7: in Known-Reference mode a processed frame (of non-zero size) yields a
\* distance and a wingspan only when exactly one subject is detected; with
\* zero or with two or more subjects both are null.
C7_ExactlyOnePose ==
    (variant = "pose" /\ JustProcessedSizedFrame)
        => IF SubjectCount(1)
           THEN distance # Null /\ wingspan # Null
           ELSE distance = Null /\ wingspan = Null

\* C8: in Known-Reference mode distance is null exactly when wingspan is, and
\* when both are available the same detection call produced them.
C8_NoStaleMix ==
    variant = "pose"
        => /\ distance = Null <=> wingspan = Null
           /\ (distance # Null /\ wingspan # Null) => distanceFrame = wingspanFrame

\* subject present, absent, present again: the third detection call wrote a
\* finite distance and wingspan after the second one had reset them
C8_Witness ==
    /\ variant = "pose"
    /\ Len(detectLog) = 3
    /\ IsFinite(distance) /\ IsFinite(wingspan)
    /\ distanceFrame = 3 /\ wingspanFrame = 3

\* C9: a number on display was written by the tick of the latest detection
\* call: no value of an earlier frame survives a processed frame.
C9_ProcessedFrameOverwrites ==
    /\ IsFinite(distance) => distanceFrame = Len(detectLog)
    /\ IsFinite(wingspan) => wingspanFrame = Len(detectLog)

----------------------------------------------------------------------------
(* Cancellation *)

\* C10: once the teardown has run no tick runs and no detection call is made,
\* and neither the teardown nor anything after it changes distance or
\* wingspan.
C10_CancelledLoopStops ==
    /\ [][ ~mounted' => MeasurementUnchanged ]_vars
    /\ [][ ~mounted => (~IsTick /\ detectLog' = detectLog) ]_vars
    /\ [](~mounted => rafPending = {})

\* the loop was torn down between two ticks with a measurement on display,
\* and the video has since presented a frame the loop never processed
C10_Witness ==
    /\ ~mounted /\ loopStarted
    /\ IsFinite(wingspan) \/ IsFinite(distance)
    /\ Playing /\ videoWidth # 0
    /\ currentTime # lastVideoTime
    /\ nextRafId <= MaxRaf

----------------------------------------------------------------------------
(* Scheduling *)

\* C11: at every moment at most one tick callback is pending; a tick runs
\* the callback that was pending and requests the next one only in the step
\* that has made its detection call and written the measurement, and no step
\* makes more than one detection call.
C11_SerializedDetection ==
    /\ [](Cardinality(rafPending) <= 1)
    /\ [][ IsTick => /\ animationFrameRef' \notin rafPending
                     /\ rafPending' = {animationFrameRef'}
                     /\ Len(detectLog') <= Len(detectLog) + 1 ]_vars

\* two detection calls have been made one after the other and one callback
\* is pending
C11_Witness ==
    /\ Len(detectLog) = 2
    /\ tickKind = "new"
    /\ Cardinality(rafPending) = 1

\* C12: every tick, whichever branch it takes, requests exactly one next
\* tick, so a started loop that is not cancelled always has one callback
\* pending; and with the host delivering pending callbacks, a running loop
\* goes on to run every further tick (up to the MaxRaf the model allows)
\* unless it is cancelled.
C12_LoopKeepsTicking ==
    /\ [][ IsTick => /\ nextRafId' = nextRafId + 1
                     /\ rafPending' = {nextRafId} ]_vars
    /\ []((loopStarted /\ mounted) => Cardinality(rafPending) = 1)
    /\ (mounted /\ loopStarted) ~> (~mounted \/ nextRafId > MaxRaf)

\* the loop has ticked through an idle, a new-frame and a duplicate-frame
\* tick and is still scheduled
C12_Witness ==
    /\ mounted /\ nextRafId > MaxRaf
    /\ tickKind = "dup"
    /\ detectLog # <<>>
    /\ Cardinality(rafPending) = 1

----------------------------------------------------------------------------
(* Detector initialization *)

\* C13: once detector initialization has failed the error state is set, the
\* landmarker stays null (initialization is not run again), the detection
\* loop is never started and no detection call is made; and an error state
\* that is set is never cleared.
C13_InitFailureIsTerminal ==
    /\ [](initFailed => /\ error # "null"
                        /\ landmarker = "null"
                        /\ ~loopStarted /\ rafPending = {}
                        /\ detectLog = <<>>)
    /\ [][ initFailed => (initFailed' /\ landmarker' = landmarker) ]_vars
    /\ [][ error # "null" => error' # "null" ]_vars

\* initialization has failed while the camera delivers frames to a mounted
\* component: everything but the detector is there for a loop to run
C13_Witness ==
    /\ initFailed /\ mounted
    /\ camera = "live" /\ Playing /\ videoWidth # 0
    /\ currentTime > 0

----------------------------------------------------------------------------
(* Frame clock *)

\* a step that calls detectForVideo
CallsDetect == Len(detectLog') = Len(detectLog) + 1

\* C17: after every tick lastVideoTime is the video timestamp seen by the
\* most recent tick that called detectForVideo, or the sentinel -1 when no
\* detection call has been made since the loop started; a tick that
\* detects stores the timestamp it saw, and a paused/ended tick or a tick
\* on a duplicate timestamp leaves lastVideoTime alone.
C17_FrameClock ==
    /\ [](lastVideoTime = IF detectLog = <<>> THEN -1
                          ELSE detectLog[Len(detectLog)])
    /\ [][ (IsTick /\ CallsDetect) => lastVideoTime' = currentTime ]_vars
    /\ [][ (IsTick /\ ~CallsDetect) => lastVideoTime' = lastVideoTime ]_vars

\* a paused tick has run after two detections while the video stands at a
\* timestamp other than the stored one
C17_Witness ==
    /\ tickKind = "idle"
    /\ Len(detectLog) = 2
    /\ lastVideoTime = detectLog[2]
    /\ currentTime # lastVideoTime

----------------------------------------------------------------------------
(* Readiness *)

\* C18: however detector initialization, camera start and display-frame
\* callbacks interleave, while the landmarker has not been created no tick
\* has run, no display-frame callback has been requested and detectForVideo
\* has not been called; and distance and wingspan stay null until the first
\* detectForVideo call.
C18_NoDetectionBeforeReady ==
    /\ landmarker = "null" => /\ ~loopStarted
                              /\ rafPending = {} /\ nextRafId = 1
                              /\ animationFrameRef = 0
                              /\ tickKind = "none"
                              /\ detectLog = <<>>
    /\ detectLog = <<>> => (distance = Null /\ wingspan = Null)

\* the camera already delivers playing frames of non-zero size to a mounted
\* component whose detector initialization has not settled yet
C18_Witness ==
    /\ landmarker = "null" /\ ~initFailed /\ mounted
    /\ camera = "live" /\ Playing /\ videoWidth # 0
    /\ currentTime > 0

----------------------------------------------------------------------------
(* Camera release *)

\* C19: however getUserMedia resolving and the teardown interleave, once the
\* component has been torn down no camera stream is live: a stream acquired
\* before the teardown was stopped by it, and a stream acquired after it
\* does not stay live.
C19_CameraReleasedOnTeardown == ~mounted => camera # "live"

----------------------------------------------------------------------------
(* Overlay *)

\* C20: a tick on a playing video whose timestamp equals lastVideoTime
\* leaves on the canvas the overlay drawn for the last processed frame, so
\* the lines and markers of a displayed measurement stay displayed
\* (assigning canvas.width or canvas.height clears the canvas).
C20_OverlayKeptOnDuplicate ==
    [][ (IsTick /\ Playing /\ currentTime = lastVideoTime)
            => overlay' = overlay ]_vars

----------------------------------------------------------------------------
(* The measurement arithmetic on its own: one tick's measurement branch,   *)
(* run on frames of several sizes and on landmark lists that vary the      *)
(* pixel separations.                                                       *)

\* canvas.width, canvas.height as set from video.videoWidth, video.videoHeight
GeomFrames == { <<0, 0>>, <<640, 480>>, <<IdealWidth, IdealHeight>>, <<1920, 1080>> }

\* pose subjects with level shoulders and level wrists at several separations
GeomPoseSubjects ==
    { PoseSubject(Point(sh[1], 5, 0), Point(sh[2], 5, 0),
                  Point(wr[1], 5, 0), Point(wr[2], 5, 0)) :
        sh \in { <<4, 6>>, <<3, 7>>, <<5, 5>> },
        wr \in { <<1, 9>>, <<3, 7>>, <<4, 6>>, <<5, 5>> } }

\* middle fingertips on one level line at several positions
GeomHandSubjects == { HandSubject(Point(x, 5, 0)) : x \in {4, 5, 6, 8} }

GeomSubjectsOf(v) == IF v = "pose" THEN GeomPoseSubjects ELSE GeomHandSubjects

\* what detectForVideo can return here: no landmarks field, or a list of up
\* to two subjects
GeomResults(v) ==
    {NoLandmarks} \cup { WithLandmarks(l) : l \in SeqsUpTo(GeomSubjectsOf(v), 2) }

\* a tick on a playing video has set the canvas size, passed the frame gate
\* and received the result of detectForVideo
GeomInit ==
    /\ variant \in Variants
    /\ landmarker = "ready"
    /\ error = "null"
    /\ mounted = TRUE
    /\ loopStarted = TRUE
    /\ paused = FALSE
    /\ ended = FALSE
    /\ \E f \in GeomFrames :
          /\ videoWidth = f[1] /\ videoHeight = f[2]
          /\ canvasWidth = f[1] /\ canvasHeight = f[2]
    /\ currentTime = 0
    /\ lastVideoTime = 0
    /\ distance = Null
    /\ wingspan = Null
    /\ animationFrameRef = 0
    /\ rafPending = {}
    /\ nextRafId = 1
    /\ results \in GeomResults(variant)
    /\ detectLog = <<0>>
    /\ observed = {0}
    /\ distanceFrame = 0
    /\ wingspanFrame = 0
    /\ tickKind = "none"
    /\ initFailed = FALSE
    /\ camera = "live"
    /\ overlay = 0

\* the measurement branch of that tick: the setters are called with the
\* values computed from results
GeomMeasure ==
    /\ tickKind = "none"
    /\ LET m == Measure(variant, results, canvasWidth, canvasHeight)
       IN  /\ distance' = IF m.setDistance THEN m.distance ELSE distance
           /\ wingspan' = IF m.setWingspan THEN m.wingspan ELSE wingspan
           /\ distanceFrame' = IF m.setDistance THEN 1 ELSE distanceFrame
           /\ wingspanFrame' = IF m.setWingspan THEN 1 ELSE wingspanFrame
    /\ overlay' = Drawn(variant, results, 1)
    /\ tickKind' = "new"
    /\ UNCHANGED <<variant, landmarker, error, mounted, loopStarted, initFailed,
                   camera, canvasWidth, canvasHeight, lastVideoTime,
                   animationFrameRef, rafPending, nextRafId, results, detectLog,
                   observed>>
    /\ UNCHANGED videoVars

GeomNext == GeomMeasure

GeomSpec == GeomInit /\ [][GeomNext]_vars

----------------------------------------------------------------------------
(* Known-Reference measurement *)

\* the measurement branch has run on a result with a pose
MeasuredPose == variant = "pose" /\ tickKind = "new" /\ PoseDetected(results)

\* p_ref and p_target of the first pose of a result on a W x H frame
RefPixels(res, W, H) ==
    PixelSeparation(res.landmarks[1][11], res.landmarks[1][12], W, H)
TargetPixels(res, W, H) ==
    PixelSeparation(res.landmarks[1][15], res.landmarks[1][16], W, H)

\* C14: for a pose measured on a frame of non-zero width with a non-zero
\* shoulder separation, the wingspan set by the tick is
\* p_target * L_ref / p_ref, in which neither the field of view nor the
\* frame width appears, and the same landmarks measured on any other frame
\* size give the same wingspan.
C14_SimilarTrianglesRoundTrip ==
    (MeasuredPose /\ canvasWidth # 0
        /\ RefPixels(results, canvasWidth, canvasHeight) # 0)
    => /\ wingspan = Rat(TargetPixels(results, canvasWidth, canvasHeight)
                             * ASSUMED_SHOULDER_WIDTH_CM,
                         RefPixels(results, canvasWidth, canvasHeight))
       /\ \A f \in GeomFrames :
             f[1] # 0 => Measure(variant, results, f[1], f[2]).wingspan = wingspan

\* a pose with shoulders and wrists apart has been measured on the widest
\* frame
C14_Witness ==
    /\ MeasuredPose /\ canvasWidth = 1920
    /\ RefPixels(results, canvasWidth, canvasHeight) = 768
    /\ TargetPixels(results, canvasWidth, canvasHeight) = 1536
    /\ wingspan = FromInt(90)

----------------------------------------------------------------------------
(* Known-Reference scenario *)

\* shoulders at (0.40,0.50) and (0.60,0.50), wrists at (0.10,0.50) and
\* (0.90,0.50)
ScenarioPose ==
    WithLandmarks(<< PoseSubject(Point(4, 5, 0), Point(6, 5, 0),
                                 Point(1, 5, 0), Point(9, 5, 0)) >>)

\* the scenario has been measured on a 1280 px wide frame: p_ref = 256,
\* p_target = 1024
ScenarioMeasured ==
    /\ MeasuredPose /\ canvasWidth = IdealWidth /\ results = ScenarioPose
    /\ RefPixels(results, canvasWidth, canvasHeight) = 256
    /\ TargetPixels(results, canvasWidth, canvasHeight) = 1024

\* v rounds to tenths/10 at one decimal place: |v - tenths/10| <= 0.05
About(v, tenths) ==
    /\ IsFinite(v)
    /\ (2 * tenths - 1) * v.d <= 20 * v.n
    /\ 20 * v.n <= (2 * tenths + 1) * v.d

\* C15 (as computed): in the scenario the focal length is about 914.0 px,
\* the distance is about 160.7 cm and the wingspan is 180 cm.
C15_ScenarioValues ==
    ScenarioMeasured
    => /\ About(focalLengthPixels(canvasWidth), 9140)
       /\ About(distance, 1607)
       /\ wingspan = FromInt(180)

C15_Witness == ScenarioMeasured /\ IsFinite(distance) /\ IsFinite(wingspan)

\* C15 (as stated): in the scenario the focal length is about 914.9 px, the
\* distance is about 160.6 cm and the wingspan is about 179.6 cm.
C15_ScenarioValuesAsStated ==
    ScenarioMeasured
    => /\ About(focalLengthPixels(canvasWidth), 9149)
       /\ About(distance, 1606)
       /\ About(wingspan, 1796)

----------------------------------------------------------------------------
(* Fixed-Distance measurement *)

\* the measurement branch has run on a result with exactly two hands
MeasuredHands ==
    /\ variant # "pose" /\ tickKind = "new"
    /\ HasLandmarks(results) /\ TwoHands(results)

\* the value a hand variant derives, taken from a measurement
HandValueOf(m) == IF variant = "handDistance" THEN m.distance ELSE m.wingspan

\* res with the second fingertip moved to k times its offset from the first
Stretch(res, k) ==
    LET a == res.landmarks[1][12]
        b == res.landmarks[2][12]
    IN  WithLandmarks(<< HandSubject(a),
                         HandSubject(Point(a.x + k * (b.x - a.x),
                                           a.y + k * (b.y - a.y),
                                           a.z + k * (b.z - a.z))) >>)

\* C16: with two hands on a frame of non-zero width, the same hands at
\* twice the pixel separation give exactly twice the derived length, and
\* coinciding fingertips give the value 0, not null.
C16_FixedDistanceLinear ==
    (MeasuredHands /\ canvasWidth # 0)
    => /\ results.landmarks[1][12] = results.landmarks[2][12]
              => HandValue = FromInt(0)
       /\ IsFinite(HandValue)
       /\ HandValueOf(Measure(variant, Stretch(results, 2), canvasWidth, canvasHeight))
              = FMul(FromInt(2), HandValue)

\* two fingertips 256 px apart on a 1280 px wide frame have been measured
\* in the wingspan variant
C16_Witness ==
    /\ MeasuredHands /\ variant = "handWingspan" /\ canvasWidth = IdealWidth
    /\ PixelSeparation(results.landmarks[1][12], results.landmarks[2][12],
                       canvasWidth, canvasHeight) = 256
    /\ wingspan = Rat(10503, 250)

====
